---- MODULE Spec2Model ----
(***************************************************************************)
(* rkeyboard: a global keyboard listener that plays successive chunks of   *)
(* a sliced WAV file, and the UI callback that loads and slices the file.  *)
(* Model of src/src/main.rs.                                               *)
(*                                                                         *)
(* Units.  The clock `now` counts milliseconds.  The f32 arguments of the  *)
(* load callback that are converted with `as usize` / `as u64`             *)
(* (clip_start, clip_end, slice_len, delay) are given in halves (a value h *)
(* stands for h/2), so that the truncation of the cast is exercised.       *)
(* vol and pitch are never converted; they are given in hundredths.        *)
(***************************************************************************)
EXTENDS Integers, Sequences, FiniteSets, TLC

VARIABLES
    \* AudioState (behind the Mutex)
    chunks, index, channels, sample_rate, loudness, pitch, delay_ms,
    last_played, pressed_keys,
    \* the Mutex, the listener thread, the UI thread, the clock
    mutex, lpc, key, buffer, stderr, upc, req, pending, now,
    \* history
    ev, played, honT, honKey, gateT, attempts, down, loaded, lastVoice

audio == <<chunks, index, channels, sample_rate, loudness, pitch, delay_ms,
           last_played, pressed_keys>>
listener == <<lpc, key, buffer, stderr>>
ui == <<upc, req, pending>>
hist == <<played, honT, honKey, gateT, attempts, down, loaded, lastVoice>>
vars == <<audio, mutex, listener, ui, now, ev, hist>>

----------------------------------------------------------------------------
\* Bounds
MaxTime == 3
MaxPlays == 4
MaxClip == 7
MaxSlice == 5

Keys == {"KeyA", "KeyB"}
NoKey == "NoKey"
NoReq == [file_path |-> "none"]
NoBuffer == [channels |-> 0, sample_rate |-> 0, data |-> <<>>]
NoPending == [chunks |-> <<>>, channels |-> 0, sample_rate |-> 0]
NoVoice == [channels |-> 0, sample_rate |-> 0, volume |-> 0, speed |-> 0]

Min(a, b) == IF a <= b THEN a ELSE b
Max(a, b) == IF a >= b THEN a ELSE b

----------------------------------------------------------------------------
\* The file system seen by hound::WavReader::open.
ErrSample == 40000      \* a sample whose decoding returns Err

FS == [p \in {"mono.wav", "stereo.wav", "dirty.wav", "notes.txt", "missing.wav"} |->
        CASE p = "mono.wav"    -> [exists |-> TRUE, riff |-> TRUE, channels |-> 1,
                                   sample_rate |-> 2, data |-> <<11, 12, 13, 14>>]
          [] p = "stereo.wav"  -> [exists |-> TRUE, riff |-> TRUE, channels |-> 2,
                                   sample_rate |-> 1, data |-> <<21, 22, 23, 24, 25, 26>>]
          [] p = "dirty.wav"   -> [exists |-> TRUE, riff |-> TRUE, channels |-> 1,
                                   sample_rate |-> 1, data |-> <<31, ErrSample, 33>>]
          [] p = "notes.txt"   -> [exists |-> TRUE, riff |-> FALSE, channels |-> 1,
                                   sample_rate |-> 1, data |-> <<98, 99>>]
          [] p = "missing.wav" -> [exists |-> FALSE, riff |-> FALSE, channels |-> 1,
                                   sample_rate |-> 1, data |-> <<>>]]

\* variant: the header is not validated
OpenOk_Exists(path) == FS[path].exists

\* hound::WavReader::open(path): Ok(reader) or Err
OpenOk(path) == FS[path].exists /\ FS[path].riff

\* (x * sr * ch) as usize, x given in halves: truncates, saturates at 0
ToSamples(h, sr, ch) == IF h * sr * ch <= 0 THEN 0 ELSE (h * sr * ch) \div 2

\* delay as u64, delay given in halves
ToMillis(h) == IF h <= 0 THEN 0 ELSE h \div 2

\* variant: clip_start is taken as the start without normalising
StartSample_NoNormalize(r) ==
    ToSamples(r.clip_start, FS[r.file_path].sample_rate, FS[r.file_path].channels)

StartSample(r) ==
    ToSamples(Min(r.clip_start, r.clip_end),
              FS[r.file_path].sample_rate, FS[r.file_path].channels)
EndSample(r) ==
    ToSamples(Max(r.clip_start, r.clip_end),
              FS[r.file_path].sample_rate, FS[r.file_path].channels)
\* end_sample.saturating_sub(start_sample)
TotalSamples(r) ==
    IF EndSample(r) >= StartSample(r) THEN EndSample(r) - StartSample(r) ELSE 0

\* variant: the channel count is left out of the chunk size
ChunkSize_NoChannels(slice_len, sr, ch) ==
    IF slice_len * sr <= 1 THEN 1 ELSE (slice_len * sr) \div 2

\* (slice_len * sr * ch) as usize, then .max(1) at the call of chunks()
ChunkSize(slice_len, sr, ch) == Max(ToSamples(slice_len, sr, ch), 1)

\* |s| s.unwrap_or(0)
UnwrapOr0(s) == IF s = ErrSample THEN 0 ELSE s

\* variant: the samples before the range are not skipped
DecodeSpan_NoSkip(data, start, total) ==
    [j \in 1..(IF total <= Len(data) THEN total ELSE Len(data)) |->
        IF data[j] = ErrSample THEN 0 ELSE data[j]]

\* into_samples().skip(start).take(total).map(unwrap_or(0)).collect()
DecodeSpan(data, start, total) ==
    LET lo == Min(start, Len(data))
        n  == Min(total, Len(data) - lo)
    IN  [j \in 1..n |-> UnwrapOr0(data[lo + j])]

\* variant: the emptiness check is missing
IsEmptyVec_Never(v) == FALSE

\* all_samples.is_empty()
IsEmptyVec(v) == Len(v) = 0

\* lengths of the slices yielded by slice::chunks(size) over n elements
RECURSIVE ChunkLens(_, _)
ChunkLens(n, size) ==
    IF n = 0 THEN <<>>
    ELSE <<Min(n, size)>> \o ChunkLens(n - Min(n, size), size)

\* all_samples.chunks(size).map(|c| c.to_vec()).collect()
SliceChunks(all, size) ==
    LET lens == ChunkLens(Len(all), size)
    IN  [i \in 1..Len(lens) |->
            SubSeq(all, (i - 1) * size + 1, (i - 1) * size + lens[i])]

\* variant: the comparison is strict
DebounceOk_Strict(k) == now - last_played > delay_ms

\* variant: one timer per key
DebounceOk_PerKey(k) == k # honKey \/ now - last_played >= delay_ms

\* variant: the debounce gate lets every press through
DebounceOk_Always(k) == TRUE

\* last_played.elapsed() >= Duration::from_millis(delay_ms), for the press of k
DebounceOk(k) == now - last_played >= delay_ms

\* variant: the cursor does not wrap
NextIndex_NoWrap(i, n) == i + 1

\* variant: the cursor advances by two
NextIndex_Skip(i, n) == (i + 2) % n

\* (index + 1) % chunks.len()
NextIndex(i, n) == (i + 1) % n

\* variant: the volume the state was constructed with
SinkVolume_Initial == 100

\* sink.set_volume(state.loudness)
SinkVolume == loudness

\* sink.set_speed(state.pitch)
SinkSpeed == pitch

\* variant: every press counts as a new one
InsertIsNew_Always(k) == TRUE

\* pressed_keys.insert(k): TRUE iff k was not yet in the set
InsertIsNew(k) == k \notin pressed_keys

\* variant: the key is recorded only when its press can play
InsertKey_IfPlayable(k) ==
    IF now - last_played >= delay_ms /\ chunks # <<>>
    THEN pressed_keys \cup {k} ELSE pressed_keys

\* pressed_keys.insert(k): the set afterwards
InsertKey(k) == pressed_keys \cup {k}

\* variant: the key is not removed
RemoveKey_Forget(k) == pressed_keys

\* pressed_keys.remove(&k): the set afterwards
RemoveKey(k) == pressed_keys \ {k}

----------------------------------------------------------------------------
\* The load commands the UI issues
Req(v, p, s, e, d, sl, f) ==
    [vol |-> v, pitch |-> p, clip_start |-> s, clip_end |-> e, delay |-> d,
     slice_len |-> sl, file_path |-> f]

Reqs ==
    { Req(100, 100, 0, 4, 4, 2, "mono.wav"),      \* 2 chunks of 2, 2 ms
      Req(50, 200, 5, 0, 3, 3, "stereo.wav"),     \* chunks of 3 and 2, 1 ms
      Req(100, 150, 1, 4, -2, 0, "mono.wav"),     \* 3 chunks of 1, 0 ms
      Req(30, 100, 2, 2, 4, 2, "mono.wav"),       \* zero width
      Req(30, 100, 9, 12, 4, 2, "stereo.wav"),    \* outside the file
      Req(30, 100, 0, 4, 4, 2, "notes.txt"),      \* not a WAV file
      Req(30, 100, 0, 4, 4, 2, "missing.wav") }   \* cannot be opened

----------------------------------------------------------------------------
InitState ==
    /\ chunks = <<>>
    /\ index = 0
    /\ channels = 2
    /\ sample_rate = 44100
    /\ loudness = 100
    /\ pitch = 100
    /\ delay_ms = 50
    /\ now = 0
    /\ last_played = 0
    /\ pressed_keys = {}
    /\ mutex = "free"
    /\ lpc = "listen"
    /\ key = NoKey
    /\ buffer = NoBuffer
    /\ stderr = FALSE
    /\ pending = NoPending
    /\ played = <<>>
    /\ honT = -1
    /\ honKey = NoKey
    /\ gateT = -1
    /\ attempts = [k \in Keys |-> 0]
    /\ down = [k \in Keys |-> FALSE]
    /\ loaded = NoReq
    /\ lastVoice = NoVoice

\* the state after construction
Init ==
    /\ InitState
    /\ upc = "idle"
    /\ req = NoReq
    /\ ev = "init"

\* the first call of the load callback, with any arguments
SliceReqs ==
    { Req(100, 100, s, e, 2, sl, f) :
        s \in -1..MaxClip, e \in -1..MaxClip, sl \in -1..MaxSlice, f \in DOMAIN FS }

InitSlice ==
    /\ InitState
    /\ upc = "decoding"
    /\ req \in SliceReqs
    /\ ev = "load_call"

\* ---- listener thread: the rdev::listen callback ----

\* EventType::KeyPress(k), up to the call of Sink::try_new
KeyPress(k) ==
    /\ lpc = "listen"
    /\ mutex = "free"
    /\ Len(played) < MaxPlays
    /\ key' = k
    /\ down' = [down EXCEPT ![k] = TRUE]
    /\ pressed_keys' = InsertKey(k)
    /\ IF ~InsertIsNew(k)
       THEN /\ ev' = "press_held"
            /\ UNCHANGED <<mutex, lpc, buffer, gateT, attempts>>
       ELSE /\ gateT' = now
            /\ attempts' = [attempts EXCEPT ![k] = Min(@ + 1, 2)]
            /\ IF DebounceOk(k) /\ chunks # <<>>
               THEN /\ buffer' = [channels |-> channels, sample_rate |-> sample_rate,
                                  data |-> chunks[index + 1]]
                    /\ lpc' = "audio"
                    /\ mutex' = "listener"
                    /\ ev' = "press_gate"
               ELSE /\ ev' = "press_reject"
                    /\ UNCHANGED <<mutex, lpc, buffer>>
    /\ UNCHANGED <<chunks, index, channels, sample_rate, loudness, pitch, delay_ms,
                   last_played, stderr, ui, now, played, honT, honKey, loaded,
                   lastVoice>>

\* Sink::try_new returned Ok: the voice is started, the state advanced
SinkOk ==
    /\ lpc = "audio"
    /\ played' = Append(played, buffer.data)
    /\ lastVoice' = [channels |-> buffer.channels, sample_rate |-> buffer.sample_rate,
                     volume |-> SinkVolume, speed |-> SinkSpeed]
    /\ last_played' = now
    /\ index' = NextIndex(index, Len(chunks))
    /\ honT' = now
    /\ honKey' = key
    /\ lpc' = "listen"
    /\ mutex' = "free"
    /\ buffer' = NoBuffer
    /\ ev' = "voice_ok"
    /\ UNCHANGED <<chunks, channels, sample_rate, loudness, pitch, delay_ms,
                   pressed_keys, key, stderr, ui, now, gateT, attempts, down, loaded>>

\* variant: a failed voice creation still advances the rotation
SinkErr_Advance ==
    /\ lpc = "audio"
    /\ last_played' = now
    /\ index' = NextIndex(index, Len(chunks))
    /\ lpc' = "listen"
    /\ mutex' = "free"
    /\ buffer' = NoBuffer
    /\ ev' = "voice_err"
    /\ UNCHANGED <<chunks, channels, sample_rate, loudness, pitch, delay_ms,
                   pressed_keys, key, stderr, ui, now, hist>>

\* Sink::try_new returned Err: nothing is played
SinkErr ==
    /\ lpc = "audio"
    /\ lpc' = "listen"
    /\ mutex' = "free"
    /\ buffer' = NoBuffer
    /\ ev' = "voice_err"
    /\ UNCHANGED <<audio, key, stderr, ui, now, hist>>

\* EventType::KeyRelease(k)
KeyRelease(k) ==
    /\ lpc = "listen"
    /\ mutex = "free"
    /\ key' = k
    /\ pressed_keys' = RemoveKey(k)
    /\ down' = [down EXCEPT ![k] = FALSE]
    /\ attempts' = [attempts EXCEPT ![k] = 0]
    /\ ev' = "release"
    /\ UNCHANGED <<chunks, index, channels, sample_rate, loudness, pitch, delay_ms,
                   last_played, mutex, lpc, buffer, stderr, ui, now, played, honT, honKey,
                   gateT, loaded, lastVoice>>

\* any other event type: the callback takes the lock and does nothing
OtherEvent ==
    /\ lpc = "listen"
    /\ mutex = "free"
    /\ ev' = "other"
    /\ UNCHANGED <<audio, mutex, listener, ui, now, hist>>

\* OutputStream::try_default() or rdev::listen returns Err: expect/unwrap
\* panics the listener thread, whose JoinHandle was dropped; main stays in
\* ui.run().  The panic message goes to stderr, which a console-less build
\* (windows_subsystem = "windows") does not show.
ListenReturns ==
    /\ lpc = "listen"
    /\ mutex = "free"
    /\ lpc' = "dead"
    /\ stderr' \in BOOLEAN
    /\ ev' = "listen_err"
    /\ UNCHANGED <<audio, mutex, key, buffer, ui, now, hist>>

\* ---- UI thread: the on_start_loading callback ----

\* variant: the callback takes the lock before it opens the file
StartLoad_LockFirst(r) ==
    /\ upc = "idle"
    /\ mutex = "free"
    /\ mutex' = "ui"
    /\ upc' = "decoding"
    /\ req' = r
    /\ ev' = "load_call"
    /\ UNCHANGED <<audio, listener, pending, now, hist>>

\* the callback is invoked with the values of the UI
StartLoad(r) ==
    /\ upc = "idle"
    /\ upc' = "decoding"
    /\ req' = r
    /\ ev' = "load_call"
    /\ UNCHANGED <<audio, mutex, listener, pending, now, hist>>

\* open, decode and chunk the file; no lock is held
Decode ==
    /\ upc = "decoding"
    /\ IF ~OpenOk(req.file_path)
       THEN /\ ev' = "load_invalid"
            /\ upc' = "idle"
            /\ req' = NoReq
            /\ UNCHANGED pending
       ELSE LET f == FS[req.file_path]
                all_samples == DecodeSpan(f.data, StartSample(req), TotalSamples(req))
            IN  IF IsEmptyVec(all_samples)
                THEN /\ ev' = "load_empty"
                     /\ upc' = "idle"
                     /\ req' = NoReq
                     /\ UNCHANGED pending
                ELSE /\ ev' = "load_decoded"
                     /\ upc' = "locking"
                     /\ pending' =
                          [chunks |-> SliceChunks(all_samples,
                                        ChunkSize(req.slice_len, f.sample_rate, f.channels)),
                           channels |-> f.channels, sample_rate |-> f.sample_rate]
                     /\ UNCHANGED req
    /\ UNCHANGED <<audio, mutex, listener, now, hist>>

\* variant: the chunks are replaced, the metadata and parameters are not
ApplyLoad_ChunksOnly ==
    /\ upc = "locking"
    /\ mutex = "free"
    /\ chunks' = pending.chunks
    /\ index' = 0
    /\ upc' = "idle"
    /\ req' = NoReq
    /\ pending' = NoPending
    /\ played' = <<>>
    /\ loaded' = req
    /\ ev' = "load_apply"
    /\ UNCHANGED <<channels, sample_rate, loudness, pitch, delay_ms,
                   last_played, pressed_keys, mutex, listener, now,
                   honT, honKey, gateT, attempts, down, lastVoice>>

\* load_state.lock() and the seven assignments
ApplyLoad ==
    /\ upc = "locking"
    /\ mutex = "free"
    /\ chunks' = pending.chunks
    /\ index' = 0
    /\ channels' = pending.channels
    /\ sample_rate' = pending.sample_rate
    /\ loudness' = req.vol
    /\ pitch' = req.pitch
    /\ delay_ms' = ToMillis(req.delay)
    /\ upc' = "idle"
    /\ req' = NoReq
    /\ pending' = NoPending
    /\ played' = <<>>
    /\ loaded' = req
    /\ ev' = "load_apply"
    /\ UNCHANGED <<last_played, pressed_keys, mutex, listener, now,
                   honT, honKey, gateT, attempts, down, lastVoice>>

\* ---- the clock ----
Tick ==
    /\ now < MaxTime
    /\ now' = now + 1
    /\ ev' = "tick"
    /\ UNCHANGED <<audio, mutex, listener, ui, hist>>

Next ==
    \/ \E k \in Keys : KeyPress(k)
    \/ SinkOk
    \/ SinkErr
    \/ \E k \in Keys : KeyRelease(k)
    \/ OtherEvent
    \/ ListenReturns
    \/ \E r \in Reqs : StartLoad(r)
    \/ Decode
    \/ ApplyLoad
    \/ Tick

Spec == Init /\ [][Next]_vars

NextSlice ==
    \/ Decode
    \/ ApplyLoad

SpecSlice == InitSlice /\ [][NextSlice]_vars

----------------------------------------------------------------------------
\* Steps of the two threads, recognised from the program counters and the
\* event being handled
LoadStep == upc' # upc
StepReq == IF upc = "idle" THEN req' ELSE req
QualifyingPress ==
    /\ lpc = "listen"
    /\ key' \in Keys
    /\ key' \notin pressed_keys
    /\ key' \in pressed_keys'
DecodeStep == upc = "decoding" /\ upc' # "decoding"
ApplyStep == upc = "locking" /\ upc' = "idle"

\* the sample positions of the file that a request selects
Selected(r) ==
    {i \in 1..Len(FS[r.file_path].data) : StartSample(r) < i /\ i <= EndSample(r)}
InvalidFile(path) == ~FS[path].exists \/ ~FS[path].riff
ValidWav(path) ==
    /\ ~InvalidFile(path)
    /\ \A i \in 1..Len(FS[path].data) : FS[path].data[i] # ErrSample
EmptySelection(r) == ~InvalidFile(r.file_path) /\ Selected(r) = {}
\* the selected samples, in file order
SpanOf(r) ==
    [j \in 1..Cardinality(Selected(r)) |-> FS[r.file_path].data[StartSample(r) + j]]

RECURSIVE Concat(_)
Concat(ss) == IF ss = <<>> THEN <<>> ELSE Head(ss) \o Concat(Tail(ss))

\* C1: whenever chunks is non-empty the cursor is a valid position of it,
\* and right after a successful load the cursor is 0.
C1_CursorInRange ==
    /\ chunks # <<>> => (0 <= index /\ index < Len(chunks))
    /\ ev = "load_apply" => index = 0

\* a load has replaced a list the cursor had advanced in
C1_Witness ==
    /\ ev = "load_apply"
    /\ honT >= 0
    /\ Len(chunks) >= 2
    /\ pressed_keys # {}

\* C2: the k-th playback since the last load plays chunk (k-1) mod N: the
\* chunks are played in their original order and the rotation wraps.
C2_Rotation ==
    /\ \A i \in 1..Len(played) :
          /\ chunks # <<>>
          /\ played[i] = chunks[((i - 1) % Len(chunks)) + 1]
    /\ lpc = "audio" => buffer.data = chunks[(Len(played) % Len(chunks)) + 1]

\* N+1 playbacks of a list of N >= 2 chunks: the last one is chunk 0 again
C2_Witness ==
    /\ Len(chunks) >= 2
    /\ Len(played) = Len(chunks) + 1
    /\ played[Len(played)] = chunks[1]

\* C3 (amended): a playback is started only if the time since the last
\* honored trigger is at least the debounce interval; a qualifying press
\* made at least the debounce interval after the last honored trigger, with
\* chunks loaded, passes the gate (it plays unless voice creation fails).
C3_Debounce ==
    /\ lpc = "audio" => (honT = -1 \/ gateT - honT >= delay_ms)
    /\ (ev = "press_reject" /\ honT >= 0 /\ chunks # <<>>) => gateT - honT < delay_ms

\* a press rejected inside the window of an earlier playback
C3_Witness ==
    /\ ev = "press_reject"
    /\ honT >= 0
    /\ chunks # <<>>
    /\ delay_ms > 0
    /\ gateT > honT

\* C3 as stated: after an honored trigger, every qualifying press made at
\* least the debounce interval later, with chunks loaded, produces a playback.
C3_Original ==
    /\ C3_Debounce
    /\ (ev \in {"press_reject", "voice_err"} /\ honT >= 0 /\ chunks # <<>>)
          => gateT - honT < delay_ms

\* C4: a qualifying press of a key other than the one whose press was last
\* honored, made inside the debounce window, starts no playback and leaves
\* the cursor where it is.
C4_GlobalDebounce ==
    [][ (QualifyingPress /\ honKey \notin {NoKey, key'} /\ now - honT < delay_ms)
        => (lpc' = "listen" /\ index' = index /\ played' = played
              /\ last_played' = last_played) ]_vars

\* key B rejected in the window opened by key A
C4_Witness ==
    /\ ev = "press_reject"
    /\ honKey \notin {NoKey, key}
    /\ chunks # <<>>
    /\ now - honT < delay_ms

\* C5: between a release of k (or the start) and the next release of k, at
\* most one KeyPress(k) reaches the debounce gate.
C5_AutoRepeat == \A k \in Keys : attempts[k] <= 1

\* a repeated press that would pass the gate had it been attempted
C5_Witness ==
    /\ ev = "press_held"
    /\ attempts[key] = 1
    /\ chunks # <<>>
    /\ now - last_played >= delay_ms
    /\ now > gateT

\* C6: pressed_keys is the set of keys whose last event was a press, and a
\* release changes nothing of the playback state but pressed_keys.
C6_HeldKeys ==
    /\ [](pressed_keys = {k \in Keys : down[k]})
    /\ [][ (lpc = "listen" /\ ev' = "release")
           => /\ pressed_keys' = pressed_keys \ {key'}
              /\ UNCHANGED <<chunks, index, channels, sample_rate, loudness,
                             pitch, delay_ms, last_played>> ]_vars

\* a release of a key that is not held, another key being held
C6_Witness ==
    /\ ev = "release"
    /\ pressed_keys = Keys \ {key}
    /\ chunks # <<>>
    /\ attempts[key] = 0

\* C7: no step of a load whose selection holds no sample of the file changes
\* any field of the playback state.
C7_EmptyLoadNoOp ==
    [][ (LoadStep /\ EmptySelection(StepReq)) => UNCHANGED audio ]_vars

\* an empty selection returned while chunks were loaded and the cursor advanced
C7_Witness ==
    /\ ev = "load_empty"
    /\ chunks # <<>>
    /\ index > 0
    /\ pressed_keys # {}

\* C8: no step of a load whose file cannot be opened changes any field of
\* the playback state or takes the lock; once it has returned, a qualifying
\* press that passes the gate still starts the chunk under the cursor.
C8_InvalidFileAbort ==
    /\ [][ (LoadStep /\ InvalidFile(StepReq.file_path))
           => (UNCHANGED <<audio, mutex, listener, pending>> /\ upc' # "locking") ]_vars
    /\ [](ev = "load_invalid" =>
            /\ upc = "idle"
            /\ \A k \in Keys \ pressed_keys :
                 (lpc = "listen" /\ chunks # <<>> /\ Len(played) < MaxPlays
                     /\ now - last_played >= delay_ms)
                 => ENABLED (KeyPress(k) /\ lpc' = "audio"
                               /\ buffer'.data = chunks[index + 1]))

\* a load aborted while chunks were loaded and the rotation under way
C8_Witness ==
    /\ ev = "load_invalid"
    /\ chunks # <<>>
    /\ index > 0
    /\ Keys \ pressed_keys # {}
    /\ now - last_played >= delay_ms
    /\ Len(played) < MaxPlays

\* C9 (amended): for a valid WAV file, when the requested sample span
\* [start_sample, end_sample), clipped to the file, is non-empty the load
\* produces a non-empty chunk list whose concatenation is exactly that span,
\* and installs it; when it is empty nothing is produced.
C9_SliceRoundTrip ==
    /\ [][ (DecodeStep /\ ValidWav(req.file_path))
           => IF Selected(req) = {}
              THEN upc' = "idle" /\ pending' = pending
              ELSE /\ upc' = "locking"
                   /\ pending'.chunks # <<>>
                   /\ Concat(pending'.chunks) = SpanOf(req) ]_vars
    /\ [][ (ApplyStep /\ ValidWav(req.file_path))
           => Concat(chunks') = SpanOf(req) ]_vars

\* a span that starts inside the file and ends beyond it, cut in several chunks
C9_Witness ==
    /\ upc = "locking"
    /\ ValidWav(req.file_path)
    /\ StartSample(req) > 0
    /\ EndSample(req) > Len(FS[req.file_path].data)
    /\ Len(pending.chunks) >= 2

\* C9 as stated: every range with actual_end > actual_start of a valid WAV
\* file yields a non-empty chunk list that concatenates to the span.
C9_Original ==
    [][ (DecodeStep /\ ValidWav(req.file_path) /\ req.clip_start # req.clip_end)
        => /\ upc' = "locking"
           /\ pending'.chunks # <<>>
           /\ Concat(pending'.chunks) = SpanOf(req) ]_vars

\* C10: no loaded chunk is empty; the chunks of a load all have
\* max(slice_len*rate*channels, 1) samples, except the last, which has
\* between 1 and that many; 88200 mono samples at 44100 Hz with slice length
\* 0.5 s are cut in 4 chunks of 22050.
C10_ChunkLengths ==
    /\ \A i \in 1..Len(chunks) : Len(chunks[i]) >= 1
    /\ upc = "locking" =>
         LET f    == FS[req.file_path]
             raw  == req.slice_len * f.sample_rate * f.channels
             size == IF raw >= 2 THEN raw \div 2 ELSE 1
             n    == Len(pending.chunks)
         IN  /\ n >= 1
             /\ \A i \in 1..(n - 1) : Len(pending.chunks[i]) = size
             /\ 1 <= Len(pending.chunks[n])
             /\ Len(pending.chunks[n]) <= size
    /\ ChunkLens(88200, ChunkSize(1, 44100, 1)) = <<22050, 22050, 22050, 22050>>

\* a non-positive slice length, clamped to chunks of one sample
C10_Witness ==
    /\ ev = "load_apply"
    /\ Len(chunks) >= 3
    /\ \A i \in 1..Len(chunks) : Len(chunks[i]) = 1
    /\ channels = 2

\* the same request with range_start and range_end exchanged
Swapped(r) == [r EXCEPT !.clip_start = r.clip_end, !.clip_end = r.clip_start]
\* the samples and chunk list a request selects in its file
SamplesOf(r) == DecodeSpan(FS[r.file_path].data, StartSample(r), TotalSamples(r))
ChunksOf(r) ==
    SliceChunks(SamplesOf(r),
                ChunkSize(r.slice_len, FS[r.file_path].sample_rate,
                          FS[r.file_path].channels))

\* C11: a load with (range_start, range_end) = (a, b) does what the load
\* with (b, a) does: it returns without a change exactly when that one
\* does, and otherwise installs the same chunks, cursor, metadata and
\* parameters.
C11_RangeOrder ==
    /\ [][ (DecodeStep /\ ~InvalidFile(req.file_path))
           => IF SamplesOf(Swapped(req)) = <<>>
              THEN upc' = "idle" /\ pending' = pending
              ELSE /\ upc' = "locking"
                   /\ pending'.chunks = ChunksOf(Swapped(req)) ]_vars
    /\ [][ ApplyStep
           => /\ chunks' = ChunksOf(Swapped(req))
              /\ index' = 0
              /\ channels' = FS[req.file_path].channels
              /\ sample_rate' = FS[req.file_path].sample_rate
              /\ <<loudness', pitch', delay_ms'>>
                   = <<req.vol, req.pitch, ToMillis(req.delay)>> ]_vars

\* a load given its range end first
C11_Witness ==
    /\ upc = "locking"
    /\ req.clip_start > req.clip_end
    /\ req.clip_end > 0
    /\ Len(pending.chunks) >= 2
    /\ pending.chunks = ChunksOf(Swapped(req))

\* C12: the listener does not hold the lock while the audio-engine call
\* (Sink::try_new, append) runs, so a load that has finished decoding can
\* take the lock during that call.
C12_NoLockAcrossAudio ==
    /\ lpc = "audio" => mutex = "free"
    /\ (lpc = "audio" /\ upc = "locking") => ENABLED ApplyLoad

\* C13: no step of a load before its chunks are built takes the lock; while
\* a load is decoding, the listener can take the lock and a press that
\* passes the gate starts the chunk under the cursor of the list loaded
\* before; a load waiting for the lock gets it as soon as the listener is
\* outside its callback, and a callback holding the lock can always return.
C13_NoLockAcrossDecode ==
    /\ [][ ((upc = "idle" /\ upc' = "decoding") \/ DecodeStep)
           => mutex' = mutex ]_vars
    /\ [](upc = "decoding" => mutex # "ui")
    /\ []((upc = "decoding" /\ lpc = "listen" /\ Len(played) < MaxPlays) =>
            \A k \in Keys :
               /\ ENABLED KeyPress(k)
               /\ (k \notin pressed_keys /\ chunks # <<>>
                     /\ now - last_played >= delay_ms)
                  => ENABLED (KeyPress(k) /\ lpc' = "audio"
                                /\ buffer'.data = chunks[index + 1]))
    /\ []((upc = "locking" /\ lpc = "listen") => ENABLED ApplyLoad)
    /\ [](lpc = "audio" => ENABLED SinkOk /\ ENABLED SinkErr)

\* the listener inside an honored trigger while a load is decoding
C13_Witness ==
    /\ upc = "decoding"
    /\ lpc = "audio"
    /\ mutex = "listener"
    /\ index > 0
    /\ buffer.data = chunks[index + 1]

\* C14: whenever chunks are loaded, channels and sample_rate are those of
\* the file the chunks came from and the cursor is a position of the list;
\* the buffer the listener builds under the lock carries the chunk under the
\* cursor with that file's channel count and rate.
C14_AtomicLoad ==
    /\ chunks # <<>> =>
         /\ loaded.file_path \in DOMAIN FS
         /\ channels = FS[loaded.file_path].channels
         /\ sample_rate = FS[loaded.file_path].sample_rate
         /\ index < Len(chunks)
    /\ lpc = "audio" =>
         /\ buffer.channels = FS[loaded.file_path].channels
         /\ buffer.sample_rate = FS[loaded.file_path].sample_rate
         /\ buffer.data = chunks[index + 1]
    /\ ev = "load_apply" =>
         /\ index = 0
         /\ <<loudness, pitch, delay_ms>>
              = <<loaded.vol, loaded.pitch, ToMillis(loaded.delay)>>

\* the listener holds the lock on chunks of a file with another channel
\* count and rate than the file of the voice started before
C14_Witness ==
    /\ lpc = "audio"
    /\ lastVoice # NoVoice
    /\ lastVoice.channels # buffer.channels
    /\ lastVoice.sample_rate # buffer.sample_rate
    /\ buffer.channels = 2

\* C15: once chunks are loaded, every step that changes volume, pitch or
\* debounce leaves chunks and cursor as they are.
C15_ParamUpdate ==
    [][ (chunks # <<>>
           /\ <<loudness', pitch', delay_ms'>> # <<loudness, pitch, delay_ms>>)
        => UNCHANGED <<chunks, index>> ]_vars

\* C16: once the listener is dead, either the failure has been shown or
\* the UI accepts no further load command.
C16_ListenerFatal ==
    (lpc = "dead" /\ ~stderr) => ~ENABLED (\E r \in Reqs : StartLoad(r))

\* C17: the voice an honored trigger starts has the volume and pitch of the
\* playback state at that trigger, which are those of the most recent
\* successful load.
C17_FreshParams ==
    /\ [][ (lpc = "audio" /\ ev' = "voice_ok")
           => (lastVoice'.volume = loudness /\ lastVoice'.speed = pitch) ]_vars
    /\ [](ev = "voice_ok" =>
            (lastVoice.volume = loaded.vol /\ lastVoice.speed = loaded.pitch))

\* a trigger honored after a load that changed both parameters since the
\* voice started before
C17_Witness ==
    /\ lpc = "audio"
    /\ lastVoice # NoVoice
    /\ lastVoice.volume # loudness
    /\ lastVoice.speed # pitch
    /\ played = <<>>

\* C18: a qualifying press made while no chunks are loaded, or before the
\* debounce interval has elapsed, starts no voice and leaves cursor and
\* last_played unchanged.
C18_RejectedNoEffect ==
    [][ (QualifyingPress /\ (chunks = <<>> \/ now - last_played < delay_ms))
        => /\ lpc' = "listen"
           /\ ev' = "press_reject"
           /\ UNCHANGED <<chunks, index, last_played, played, lastVoice>> ]_vars

\* a press rejected in the debounce window, the rotation being under way
C18_Witness ==
    /\ ev = "press_reject"
    /\ lastVoice # NoVoice
    /\ index > 0
    /\ now - last_played < delay_ms
    /\ last_played > 0

\* C19: when voice creation fails, no voice is started, no field of the
\* playback state changes and the lock is released; a later qualifying
\* press that passes the gate starts the chunk that was skipped.
C19_VoiceFailureSkipped ==
    /\ [][ (lpc = "audio" /\ ev' = "voice_err")
           => /\ UNCHANGED <<audio, played, lastVoice>>
              /\ lpc' = "listen"
              /\ mutex' = "free" ]_vars
    /\ [](ev = "voice_err" =>
            \A k \in Keys \ pressed_keys :
               (Len(played) < MaxPlays /\ now - last_played >= delay_ms)
               => ENABLED (KeyPress(k) /\ lpc' = "audio"
                             /\ buffer'.data = chunks[(Len(played) % Len(chunks)) + 1]))

\* a voice creation failed in the middle of the rotation
C19_Witness ==
    /\ ev = "voice_err"
    /\ played # <<>>
    /\ index > 0
    /\ Keys \ pressed_keys # {}
    /\ now - last_played >= delay_ms
    /\ Len(played) < MaxPlays

\* C20: a press rejected by the gate leaves its key in pressed_keys, and a
\* KeyPress of a key that is in pressed_keys starts no playback and reaches
\* no gate, whatever the time elapsed and the chunks loaded since.
C20_RejectedStillHeld ==
    /\ [][ (lpc = "listen" /\ ev' = "press_reject")
           => (key' \in pressed_keys' /\ pressed_keys' = pressed_keys \cup {key'}) ]_vars
    /\ [][ (lpc = "listen" /\ ev' \in {"press_held", "press_reject", "press_gate"}
              /\ key' \in pressed_keys)
           => /\ ev' = "press_held"
              /\ lpc' = "listen"
              /\ UNCHANGED <<audio, played, lastVoice, gateT>> ]_vars

\* no playback has ever started, so the held key's press started none; it
\* is pressed again with chunks loaded and the debounce interval elapsed
C20_Witness ==
    /\ ev = "press_held"
    /\ honT = -1
    /\ pressed_keys = {key}
    /\ chunks # <<>>
    /\ now - last_played >= delay_ms
    /\ now > gateT

TypeOK ==
    /\ index \in Nat
    /\ now \in 0..MaxTime
    /\ last_played \in 0..MaxTime
    /\ pressed_keys \subseteq Keys
    /\ mutex \in {"free", "listener"}
    /\ lpc \in {"listen", "audio", "dead"}
    /\ upc \in {"idle", "decoding", "locking"}
====
